---- MODULE Spec2Model ----
(***************************************************************************)
(* Model of CollectChefMetadata.py: the Metadata object, one run() cycle   *)
(* (readConfig, collectMetadataFromChef, sendMetadataToSignalfx per node,  *)
(* saveMetadata) and the scheduling loop of main().                        *)
(*                                                                         *)
(* Python strings are sequences of one-character strings, so that replace, *)
(* split, join, startswith and the regular expression are computed and not *)
(* assumed.  A Python dict is a function; the empty dict is <<>>.          *)
(***************************************************************************)
EXTENDS Integers, Sequences, FiniteSets, TLC

(***************************************************************************)
(* String helpers (Python str methods used by the source).                 *)
(***************************************************************************)
Letters ==
    {"a","b","c","d","e","f","g","h","i","j","k","l","m",
     "n","o","p","q","r","s","t","u","v","w","x","y","z",
     "A","B","C","D","E","F","G","H","I","J","K","L","M",
     "N","O","P","Q","R","S","T","U","V","W","X","Y","Z"}

Digits ==
    {"0","1","2","3","4","5","6","7","8","9"}

\* str.startswith(p)
StartsWith(s, p) ==
    /\ Len(s) >= Len(p)
    /\ SubSeq(s, 1, Len(p)) = p

\* str.replace(a, b) for single characters a, b
Replace(s, a, b) ==
    [i \in 1..Len(s) |-> IF s[i] = a THEN b ELSE s[i]]

\* str.rstrip(ch): drop every trailing ch
RECURSIVE RStrip(_, _)
RStrip(s, ch) ==
    IF Len(s) > 0 /\ s[Len(s)] = ch
    THEN RStrip(SubSeq(s, 1, Len(s) - 1), ch)
    ELSE s

\* str.split(ch): the pieces between the occurrences of ch ('' gives [''])
RECURSIVE SplitFrom(_, _, _)
SplitFrom(s, ch, cur) ==
    IF s = <<>> THEN <<cur>>
    ELSE IF Head(s) = ch THEN <<cur>> \o SplitFrom(Tail(s), ch, <<>>)
    ELSE SplitFrom(Tail(s), ch, Append(cur, Head(s)))

Split(s, ch) ==
    SplitFrom(s, ch, <<>>)

\* sep.join(strs) for a sequence of strings
RECURSIVE JoinStrs(_, _)
JoinStrs(sep, strs) ==
    IF strs = <<>> THEN <<>>
    ELSE IF Len(strs) = 1 THEN strs[1]
    ELSE strs[1] \o sep \o JoinStrs(sep, Tail(strs))

\* str(n) for a natural number n
RECURSIVE IntToStr(_)
IntToStr(n) ==
    LET d == <<"0","1","2","3","4","5","6","7","8","9">>
    IN  IF n < 10 THEN <<d[n + 1]>>
        ELSE IntToStr(n \div 10) \o <<d[(n % 10) + 1]>>

(***************************************************************************)
(* String literals of the source.                                          *)
(***************************************************************************)
CHEF_UNIQUE_ID ==
    <<"c","h","e","f","U","n","i","q","u","e","I","d">>

CHEF_ENVIRONMENT ==
    <<"c","h","e","f","_","e","n","v","i","r","o","n","m","e","n","t">>

CHEF_PREFIX ==
    <<"c","h","e","f","_">>

(***************************************************************************)
(* Attribute values of a node: a tagged union of str, int, list and dict.  *)
(* Every value has the same fields so that values of different tags can be *)
(* compared.                                                               *)
(***************************************************************************)
VStr(s) ==
    [t |-> "str", s |-> s, n |-> 0, xs |-> <<>>, m |-> <<>>]

VInt(n) ==
    [t |-> "int", s |-> <<>>, n |-> n, xs |-> <<>>, m |-> <<>>]

VList(xs) ==
    [t |-> "list", s |-> <<>>, n |-> 0, xs |-> xs, m |-> <<>>]

VDict(m) ==
    [t |-> "dict", s |-> <<>>, n |-> 0, xs |-> <<>>, m |-> m]

\* repr(v): what str() of a list shows for each element
RECURSIVE Repr(_)
RECURSIVE ReprItems(_, _)
ReprItems(m, keys) ==
    IF keys = {} THEN <<>>
    ELSE LET k == CHOOSE x \in keys : TRUE
             item == <<"'">> \o k \o <<"'", ":", " ">> \o Repr(m[k])
         IN  IF keys = {k} THEN item
             ELSE item \o <<",", " ">> \o ReprItems(m, keys \ {k})

Repr(v) ==
    CASE v.t = "str" -> <<"'">> \o v.s \o <<"'">>
      [] v.t = "int" -> IntToStr(v.n)
      [] v.t = "list" ->
            <<"[">> \o JoinStrs(<<",", " ">>, [i \in 1..Len(v.xs) |-> Repr(v.xs[i])])
                    \o <<"]">>
      [] v.t = "dict" -> <<"{">> \o ReprItems(v.m, DOMAIN v.m) \o <<"}">>

\* str(v)
PyStr(v) ==
    IF v.t = "str" THEN v.s ELSE Repr(v)

(***************************************************************************)
(* checkPropertyNameSyntax: re.match of ^[a-zA-Z_][a-zA-Z0-9_-]*$          *)
(* ($ also matches just before a newline that ends the string).            *)
(***************************************************************************)
NameCore(s) ==
    /\ Len(s) >= 1
    /\ s[1] \in Letters \cup {"_"}
    /\ \A i \in 2..Len(s) : s[i] \in Letters \cup Digits \cup {"_", "-"}

checkPropertyNameSyntax(attribute) ==
    \/ NameCore(attribute)
    \/ /\ Len(attribute) >= 1
       /\ attribute[Len(attribute)] = "\n"
       /\ NameCore(SubSeq(attribute, 1, Len(attribute) - 1))

(***************************************************************************)
(* readConfig: the attributes kept from the lines of the config file.      *)
(***************************************************************************)
\* variant: the naming check is applied to the attribute as written
RECURSIVE readConfigLinesUnreplaced(_)
readConfigLinesUnreplaced(lines) ==
    IF lines = <<>> THEN <<>>
    ELSE LET line == Head(lines)
             attribute == RStrip(line, "\n")
             rest == readConfigLinesUnreplaced(Tail(lines))
         IN  IF ~StartsWith(line, <<"#">>) /\ line # <<"\n">>
                /\ checkPropertyNameSyntax(attribute)
             THEN <<attribute>> \o rest
             ELSE rest

RECURSIVE readConfigLines(_)
readConfigLines(lines) ==
    IF lines = <<>> THEN <<>>
    ELSE LET line == Head(lines)
             attribute == RStrip(line, "\n")
             rest == readConfigLines(Tail(lines))
         IN  IF ~StartsWith(line, <<"#">>) /\ line # <<"\n">>
                /\ checkPropertyNameSyntax(Replace(attribute, ".", "_"))
             THEN <<attribute>> \o rest
             ELSE rest

\* the attribute names that checkPropertyNameSyntax logs as invalid (lines
\* 174-179) while readConfig goes through the lines
RECURSIVE readConfigErrors(_)
readConfigErrors(lines) ==
    IF lines = <<>> THEN <<>>
    ELSE LET line == Head(lines)
             attribute == Replace(RStrip(line, "\n"), ".", "_")
             rest == readConfigErrors(Tail(lines))
         IN  IF ~StartsWith(line, <<"#">>) /\ line # <<"\n">>
                /\ ~checkPropertyNameSyntax(attribute)
             THEN <<attribute>> \o rest
             ELSE rest

(***************************************************************************)
(* adjustAttributeName                                                     *)
(***************************************************************************)
\* variant: the prefix is looked for before the '.' are replaced
adjustAttributeNamePrefixFirst(attribute) ==
    IF ~StartsWith(attribute, CHEF_PREFIX)
    THEN CHEF_PREFIX \o Replace(attribute, ".", "_")
    ELSE Replace(attribute, ".", "_")

adjustAttributeName(attribute) ==
    LET a == Replace(attribute, ".", "_")
    IN  IF ~StartsWith(a, CHEF_PREFIX) THEN CHEF_PREFIX \o a ELSE a

(***************************************************************************)
(* getAttributeValue: None, a string, or an uncaught TypeError of join.    *)
(***************************************************************************)
NoneResult ==
    [kind |-> "none", s |-> <<>>]

\* tempValue[token] for each token; ok is FALSE when an index raises
RECURSIVE WalkTokens(_, _)
WalkTokens(tokens, tempValue) ==
    IF tokens = <<>> THEN [ok |-> TRUE, v |-> tempValue]
    ELSE IF tempValue.t = "dict" /\ Head(tokens) \in DOMAIN tempValue.m
         THEN WalkTokens(Tail(tokens), tempValue.m[Head(tokens)])
         ELSE [ok |-> FALSE, v |-> tempValue]

\* variant: a list that holds a mapping is refused like a mapping
getAttributeValueRefusesNested(attribute, node_details) ==
    LET tokens == Split(attribute, ".")
        w == WalkTokens(tokens, node_details.attributes)
        tempValue == w.v
    IN  IF ~w.ok THEN NoneResult
        ELSE IF tempValue.t = "dict" THEN NoneResult
        ELSE IF tempValue.t = "list"
        THEN IF \E i \in 1..Len(tempValue.xs) : tempValue.xs[i].t = "dict"
             THEN NoneResult
             ELSE IF \A i \in 1..Len(tempValue.xs) : tempValue.xs[i].t = "str"
             THEN [kind |-> "str",
                   s |-> JoinStrs(<<"$">>,
                                  [i \in 1..Len(tempValue.xs) |-> tempValue.xs[i].s])]
             ELSE [kind |-> "raise", s |-> <<>>]
        ELSE [kind |-> "str", s |-> PyStr(tempValue)]

getAttributeValue(attribute, node_details) ==
    LET tokens == Split(attribute, ".")
        w == WalkTokens(tokens, node_details.attributes)
        tempValue == w.v
    IN  IF ~w.ok THEN NoneResult
        ELSE IF tempValue.t = "dict" THEN NoneResult
        ELSE IF tempValue.t = "list"
                /\ ~(\E i \in 1..Len(tempValue.xs) : tempValue.xs[i].t = "dict")
        THEN IF \A i \in 1..Len(tempValue.xs) : tempValue.xs[i].t = "str"
             THEN [kind |-> "str",
                   s |-> JoinStrs(<<"$">>,
                                  [i \in 1..Len(tempValue.xs) |-> tempValue.xs[i].s])]
             ELSE [kind |-> "raise", s |-> <<>>]
        ELSE [kind |-> "str", s |-> PyStr(tempValue)]

(***************************************************************************)
(* getNodeInformation: the record of one node, or the uncaught error.      *)
(***************************************************************************)
NodeIdentity(organization, node_name) ==
    organization \o <<"_">> \o node_name

RECURSIVE collectAttributes(_, _, _)
collectAttributes(config, node_details, nodeInformation) ==
    IF config = <<>> THEN [kind |-> "ok", rec |-> nodeInformation]
    ELSE LET attribute == Head(config)
             attributeValue == getAttributeValue(attribute, node_details)
         IN  IF attributeValue.kind = "raise"
             THEN [kind |-> "raise", rec |-> nodeInformation]
             ELSE IF attributeValue.kind = "str" /\ attributeValue.s # <<>>
             THEN collectAttributes(Tail(config), node_details,
                      (adjustAttributeName(attribute) :> attributeValue.s)
                          @@ nodeInformation)
             ELSE collectAttributes(Tail(config), node_details, nodeInformation)

getNodeInformation(organization, node_name, node_details, config) ==
    collectAttributes(config, node_details,
        (CHEF_UNIQUE_ID :> NodeIdentity(organization, node_name))
            @@ (CHEF_ENVIRONMENT :> node_details.chef_environment))

(***************************************************************************)
(* checkForUpdatesInMetadata and saveMetadata on dicts.                    *)
(***************************************************************************)
\* dict.pop(key)
Pop(d, key) ==
    [k \in (DOMAIN d) \ {key} |-> d[k]]

\* variant: pops every key of the previous record, whatever its value
RECURSIVE popPresent(_, _, _)
popPresent(keys, previous_data, current_data) ==
    IF keys = {} THEN current_data
    ELSE LET key == CHOOSE k \in keys : TRUE
         IN  popPresent(keys \ {key}, previous_data,
                 IF key \in DOMAIN current_data
                 THEN Pop(current_data, key)
                 ELSE current_data)

\* the loop of lines 129-131: pop every key whose value is unchanged
RECURSIVE popUnchanged(_, _, _)
popUnchanged(keys, previous_data, current_data) ==
    IF keys = {} THEN current_data
    ELSE LET key == CHOOSE k \in keys : TRUE
         IN  popUnchanged(keys \ {key}, previous_data,
                 IF key \in DOMAIN current_data
                    /\ current_data[key] = previous_data[key]
                 THEN Pop(current_data, key)
                 ELSE current_data)

\* savedMetadata is the dict loaded from the pickle file
checkForUpdatesInMetadata(current_data, savedMetadata) ==
    IF current_data[CHEF_UNIQUE_ID] \notin DOMAIN savedMetadata
    THEN current_data
    ELSE LET previous_data == savedMetadata[current_data[CHEF_UNIQUE_ID]]
         IN  Pop(popUnchanged(DOMAIN previous_data, previous_data, current_data),
                 CHEF_UNIQUE_ID)

\* variant: line 81 forgotten, the identity key stays in the stored record
pickleDataKeepsIdentity(nodes_md) ==
    [id \in {nodes_md[i][CHEF_UNIQUE_ID] : i \in 1..Len(nodes_md)} |->
        nodes_md[CHOOSE i \in 1..Len(nodes_md) : nodes_md[i][CHEF_UNIQUE_ID] = id]]

\* pickleData of saveMetadata: each record under its identity, identity popped
RECURSIVE pickleData(_)
pickleData(nodes_md) ==
    IF nodes_md = <<>> THEN <<>>
    ELSE LET nodeInformation == nodes_md[Len(nodes_md)]
         IN  (nodeInformation[CHEF_UNIQUE_ID] :> Pop(nodeInformation, CHEF_UNIQUE_ID))
                 @@ pickleData(SubSeq(nodes_md, 1, Len(nodes_md) - 1))

(***************************************************************************)
(* The pickle file. pickle.dump writes the dict as a stream of (key,       *)
(* value) items, a nested dict as its own items; pickle.load rebuilds the  *)
(* dict from the items.                                                    *)
(***************************************************************************)
RECURSIVE dumpItems(_, _)
dumpItems(d, keys) ==
    IF keys = {} THEN <<>>
    ELSE LET k == CHOOSE x \in keys : TRUE
         IN  <<<<k, d[k]>>>> \o dumpItems(d, keys \ {k})

loadItems(items) ==
    [k \in {items[i][1] : i \in 1..Len(items)} |->
        items[CHOOSE i \in 1..Len(items) : items[i][1] = k][2]]

\* pickle.dump(pickleData, output), lines 82-85
pickleDump(pickle_data) ==
    dumpItems([id \in DOMAIN pickle_data |->
                  dumpItems(pickle_data[id], DOMAIN pickle_data[id])],
              DOMAIN pickle_data)

\* variant: the last item of the stream is not read
pickleLoadTruncated(stream) ==
    LET outer == loadItems(SubSeq(stream, 1, Len(stream) - 1))
    IN  [id \in DOMAIN outer |-> loadItems(outer[id])]

\* pickle.load(inputPickle), lines 122-125
pickleLoad(stream) ==
    LET outer == loadItems(stream)
    IN  [id \in DOMAIN outer |-> loadItems(outer[id])]

\* variant: the pickle file is rewritten after each node that was synced
fileAfterSendRewritten(file, nodeInformation) ==
    [exists |-> TRUE,
     data |-> pickleDump((nodeInformation[CHEF_UNIQUE_ID]
                             :> Pop(nodeInformation, CHEF_UNIQUE_ID))
                         @@ pickleLoad(file.data))]

\* lines 87-133: sendMetadataToSignalfx and checkForUpdatesInMetadata open
\* PICKLE_FILE for reading only
fileAfterSend(file, nodeInformation) ==
    file

\* variant: --use-cron is ignored
afterSaveAlwaysLoops(cron) ==
    "sleep"

\* main, lines 346-351: one m.run() with --use-cron, else the endless loop
afterSave(cron) ==
    IF cron THEN "exited" ELSE "sleep"

(***************************************************************************)
(* sendMetadataToSignalfx: the decisions of lines 96-113.                  *)
(***************************************************************************)
\* variant: only server errors are fatal
lookupFailedServerError(status_code) ==
    status_code >= 500

\* getSignalfxObjectId, line 146: the lookup response is fatal
lookupFailed(status_code) ==
    status_code # 200

\* line 97: the platform has no object for the identity
noObject(rs) ==
    Len(rs) = 0

\* variant: the last id of the list
lastObjectId(rs) ==
    rs[Len(rs)]

\* line 102: the object id used
signalfxObjectId(rs) ==
    rs[1]

\* variant: tests "is not None", true of the empty dict too
hasNewMetadataNotNone(new_metadata) ==
    TRUE

\* line 107: a dict is true when it is not empty
hasNewMetadata(new_metadata) ==
    DOMAIN new_metadata # {}

\* variant: raise_for_status() on the patch response
patchRaisesForStatus(patch_status) ==
    patch_status >= 400

\* lines 108-110: the response of requests.patch is assigned and never read,
\* so no status of it ends the call
patchIsFatal(patch_status) ==
    FALSE

(***************************************************************************)
(* What the environment can answer.                                        *)
(***************************************************************************)
\* cycles the model follows: main's loop runs m.run() at most MaxCycles times
MaxCycles == 2

OBJECT_IDS ==
    {<<"A">>, <<"B">>}

\* the 'rs' list of a lookup response: ids of distinct objects, in some order
LookupResults ==
    {l \in UNION {[1..n -> OBJECT_IDS] : n \in 0..Cardinality(OBJECT_IDS)} :
        \A i, j \in 1..Len(l) : i # j => l[i] # l[j]}

\* 200; 204 (raise_for_status returns, exitNow exits); 404 (raise_for_status raises)
LookupStatuses ==
    {200, 204, 404}

PatchStatuses ==
    {200, 400}

ORGANIZATIONS ==
    {<<"o">>}

NODE_NAMES ==
    {<<"n", "1">>, <<"n", "2">>}

\* nodes.keys(): the node names of the listing, in some order, none twice
NodeListings ==
    {l \in UNION {[1..n -> NODE_NAMES] : n \in 0..Cardinality(NODE_NAMES)} :
        \A i, j \in 1..Len(l) : i # j => l[i] # l[j]}

\* the lines f.readlines() returns for the configuration file
CONFIG_A ==
    << <<"#", "\n">>, <<"\n">>, <<"r", "\n">>, <<"a", ".", "b", "\n">> >>

CONFIG_B ==
    << <<"9", "r", "\n">>, <<"r">> >>

ConfigFiles ==
    {CONFIG_A, CONFIG_B}

TREE_1 ==
    VDict((<<"r">> :> VList(<<VStr(<<"w">>), VStr(<<"c">>)>>))
          @@ (<<"a">> :> VDict(<<"b">> :> VStr(<<"1">>))))

TREE_2 ==
    VDict((<<"r">> :> VStr(<<"w">>)) @@ (<<"a">> :> VStr(<<"x">>)))

TREE_3 ==
    VDict(<<"a">> :> VDict(<<"b">> :> VDict(<<"c">> :> VStr(<<"1">>))))

TREE_4 ==
    VDict(<<"r">> :> VList(<<VInt(1)>>))

\* what Node(node_name) can hold
NodeDetails ==
    {[chef_environment |-> <<"p">>, attributes |-> TREE_1],
     [chef_environment |-> <<"d">>, attributes |-> TREE_1],
     [chef_environment |-> <<"p">>, attributes |-> TREE_2],
     [chef_environment |-> <<"p">>, attributes |-> TREE_3],
     [chef_environment |-> <<"p">>, attributes |-> TREE_4]}

(***************************************************************************)
(* State.                                                                  *)
(*   pc              where main()/run() stands                             *)
(*   use_cron        the --use-cron argument                               *)
(*   config, organization, nodes_metadata   fields of Metadata             *)
(*   nodes, node_i   the listing and loop position of collectMetadataFrom- *)
(*                   Chef; send_i the loop position of run()               *)
(*   pickle_file     the file PICKLE_FILE                                  *)
(*   exit_cause      why the process ended                                 *)
(*   requests        this cycle's lookups, patches and 'no new metadata'   *)
(*                   log entries, in order                                 *)
(*   collected       the records appended by getNodeInformation this cycle *)
(*   prev_collected  the set of records of the previous cycle, once it     *)
(*                   completed                                             *)
(*   cycle           the number of m.run() calls started                   *)
(*   last_dump       the dict of the most recent pickle.dump and the cycle *)
(*                   that made it                                          *)
(*   steps           what sendMetadataToSignalfx did for the last node it  *)
(*                   was called for in this cycle, in the order done       *)
(*   sent            the (identity, key, value) entries that SignalFx took *)
(*                   from the patches of all cycles so far                 *)
(*   call            the last direct call of one of the pure methods, with *)
(*                   its arguments and result (SpecFn)                     *)
(***************************************************************************)
VARIABLES pc, use_cron, config, organization, nodes, node_i, nodes_metadata,
          send_i, pickle_file, exit_cause, requests, collected, prev_collected,
          cycle, last_dump, call, steps, sent

vars ==
    <<pc, use_cron, config, organization, nodes, node_i, nodes_metadata,
      send_i, pickle_file, exit_cause, requests, collected, prev_collected,
      cycle, last_dump, call, steps, sent>>

\* data is the stream pickle.dump wrote
NoFile ==
    [exists |-> FALSE, data |-> <<>>]

\* the dict pickle.load gives for the file as it is now
LoadedMetadata ==
    pickleLoad(pickle_file.data)

NoCall ==
    [op |-> "none", attribute |-> <<>>,
     node_details |-> [chef_environment |-> <<>>, attributes |-> VDict(<<>>)],
     lines |-> <<>>, config |-> <<>>,
     res_bool |-> FALSE, res_kind |-> "none", res_str |-> <<>>, res_seq |-> <<>>,
     res_rec |-> <<>>, errors |-> <<>>]

GetRequest(id, status_code, rs) ==
    [op |-> "GET", id |-> id, status |-> status_code, rs |-> rs,
     objectId |-> <<>>, params |-> <<>>]

PatchRequest(id, objectId, params, status_code) ==
    [op |-> "PATCH", id |-> id, status |-> status_code, rs |-> <<>>,
     objectId |-> objectId, params |-> params]

NoNewMetadata(id) ==
    [op |-> "NO_NEW", id |-> id, status |-> 0, rs |-> <<>>,
     objectId |-> <<>>, params |-> <<>>]

\* the state after Metadata(**user_args), before the first m.run()
Init ==
    /\ pc = "run"
    /\ use_cron \in BOOLEAN
    /\ config = <<>>
    /\ organization = <<>>
    /\ nodes = <<>>
    /\ node_i = 1
    /\ nodes_metadata = <<>>
    /\ send_i = 1
    /\ pickle_file = NoFile
    /\ exit_cause = "none"
    /\ requests = <<>>
    /\ collected = <<>>
    /\ prev_collected = [done |-> FALSE, records |-> {}]
    /\ cycle = 0
    /\ last_dump = [cycle |-> 0, data |-> <<>>]
    /\ call = NoCall
    /\ steps = <<>>
    /\ sent = {}

\* run() goes from the collection to the loop of line 70, or past it
afterCollect(nodes_md) ==
    IF nodes_md = <<>> THEN "save" ELSE "send"

\* run(), lines 67-68: reset the records, readConfig()
RunReadConfig ==
    /\ pc = "run"
    /\ nodes_metadata' = <<>>
    /\ requests' = <<>>
    /\ collected' = <<>>
    /\ prev_collected' = [done |-> cycle > 0,
                          records |-> {collected[i] : i \in 1..Len(collected)}]
    /\ cycle' = cycle + 1
    /\ \E readable \in BOOLEAN, lines \in ConfigFiles :
          IF readable
          THEN /\ config' = readConfigLines(lines)
               /\ pc' = "collect"
               /\ exit_cause' = exit_cause
          ELSE /\ config' = <<>>
               /\ pc' = "aborted"
               /\ exit_cause' = "config_open"
    /\ steps' = <<>>
    /\ UNCHANGED <<use_cron, organization, nodes, node_i, send_i, pickle_file,
                   last_dump, call, sent>>

\* collectMetadataFromChef, lines 207-210: the two apiGetRequest calls
CollectListing ==
    /\ pc = "collect"
    /\ \E outcome \in {"ok", "org_fails", "nodes_fails"},
          name \in ORGANIZATIONS, listing \in NodeListings :
          /\ organization' = IF outcome = "org_fails" THEN organization ELSE name
          /\ IF outcome = "ok"
             THEN /\ nodes' = listing
                  /\ node_i' = 1
                  /\ send_i' = 1
                  /\ pc' = IF listing = <<>> THEN afterCollect(nodes_metadata)
                           ELSE "nodes"
                  /\ exit_cause' = exit_cause
             ELSE /\ pc' = "aborted"
                  /\ exit_cause' = "api_request"
                  /\ UNCHANGED <<nodes, node_i, send_i>>
    /\ UNCHANGED <<use_cron, config, nodes_metadata, pickle_file, requests,
                   collected, prev_collected, cycle, last_dump, call, steps, sent>>

\* getNodeInformation(node_name) for the next node of the listing
GetNodeInformation ==
    /\ pc = "nodes"
    /\ node_i <= Len(nodes)
    /\ \E fetched \in BOOLEAN, node_details \in NodeDetails :
          LET r == getNodeInformation(organization, nodes[node_i], node_details, config)
          IN  IF ~fetched
              THEN /\ pc' = "aborted"
                   /\ exit_cause' = "node_fetch"
                   /\ UNCHANGED <<nodes_metadata, collected, node_i>>
              ELSE IF r.kind = "raise"
              THEN /\ pc' = "aborted"
                   /\ exit_cause' = "join_type_error"
                   /\ UNCHANGED <<nodes_metadata, collected, node_i>>
              ELSE /\ nodes_metadata' = Append(nodes_metadata, r.rec)
                   /\ collected' = Append(collected, r.rec)
                   /\ node_i' = node_i + 1
                   /\ pc' = IF node_i = Len(nodes)
                            THEN afterCollect(nodes_metadata') ELSE "nodes"
                   /\ exit_cause' = exit_cause
    /\ UNCHANGED <<use_cron, config, organization, nodes, send_i, pickle_file,
                   requests, prev_collected, cycle, last_dump, call, steps, sent>>

\* variant: an empty 'rs' is handled like a failed lookup (exitNow)
sendControlNotFoundExits(status_code, rs, file_exists, new_metadata, patch_status) ==
    IF lookupFailed(status_code) \/ noObject(rs) THEN "lookup_exit"
    ELSE IF ~file_exists THEN "pickle_open_raises"
    ELSE IF ~hasNewMetadata(new_metadata) THEN "no_new_metadata"
    ELSE IF patchIsFatal(patch_status) THEN "patch_raises"
    ELSE "patched"

\* variant: the pickle file is opened for the diff before the lookup
sendControlDiffFirst(status_code, rs, file_exists, new_metadata, patch_status) ==
    IF ~file_exists THEN "pickle_open_raises"
    ELSE IF lookupFailed(status_code) THEN "lookup_exit"
    ELSE IF noObject(rs) THEN "not_found"
    ELSE IF ~hasNewMetadata(new_metadata) THEN "no_new_metadata"
    ELSE IF patchIsFatal(patch_status) THEN "patch_raises"
    ELSE "patched"

\* the control path of sendMetadataToSignalfx for one node
sendControl(status_code, rs, file_exists, new_metadata, patch_status) ==
    IF lookupFailed(status_code) THEN "lookup_exit"
    ELSE IF noObject(rs) THEN "not_found"
    ELSE IF ~file_exists THEN "pickle_open_raises"
    ELSE IF ~hasNewMetadata(new_metadata) THEN "no_new_metadata"
    ELSE IF patchIsFatal(patch_status) THEN "patch_raises"
    ELSE "patched"

\* what SignalFx stores of requests.patch(..., params=new_metadata) (line
\* 107): the entries of the payload when it answers 200, nothing otherwise
delivered(id, new_metadata, patch_status) ==
    IF patch_status = 200
    THEN {<<id, k, new_metadata[k]>> : k \in DOMAIN new_metadata}
    ELSE {}

\* the calls sendMetadataToSignalfx makes on a control path, in line order:
\* getSignalfxObjectId (96), checkForUpdatesInMetadata (104), requests.patch (107)
sendSteps(path) ==
    CASE path \in {"lookup_exit", "not_found"} -> <<"LOOKUP">>
      [] path \in {"pickle_open_raises", "no_new_metadata"} -> <<"LOOKUP", "DIFF">>
      [] path \in {"patched", "patch_raises"} -> <<"LOOKUP", "DIFF", "PATCH">>

\* sendMetadataToSignalfx(nodeInformation) for the next record of the cycle
SendMetadataToSignalfx ==
    /\ pc = "send"
    /\ send_i <= Len(nodes_metadata)
    /\ \E status_code \in LookupStatuses, rs \in LookupResults,
          patch_status \in PatchStatuses :
          LET nodeInformation == nodes_metadata[send_i]
              id == nodeInformation[CHEF_UNIQUE_ID]
              get == GetRequest(id, status_code,
                                IF status_code = 200 THEN rs ELSE <<>>)
              new_metadata == checkForUpdatesInMetadata(nodeInformation,
                                                        LoadedMetadata)
              path == sendControl(status_code, rs, pickle_file.exists,
                                  new_metadata, patch_status)
          IN  /\ requests' =
                    IF path \in {"patched", "patch_raises"}
                    THEN requests \o
                         <<get, PatchRequest(id, signalfxObjectId(rs),
                                             new_metadata, patch_status)>>
                    ELSE IF path = "no_new_metadata"
                    THEN requests \o <<get, NoNewMetadata(id)>>
                    ELSE Append(requests, get)
              /\ IF path \in {"patched", "no_new_metadata", "not_found"}
                 THEN /\ send_i' = send_i + 1
                      /\ pc' = IF send_i = Len(nodes_metadata) THEN "save" ELSE "send"
                      /\ exit_cause' = exit_cause
                 ELSE /\ send_i' = send_i
                      /\ pc' = "aborted"
                      /\ exit_cause' = path
              /\ pickle_file' = fileAfterSend(pickle_file, nodeInformation)
              /\ steps' = sendSteps(path)
              /\ sent' = IF path = "patched"
                         THEN sent \cup delivered(id, new_metadata, patch_status)
                         ELSE sent
    /\ UNCHANGED <<use_cron, config, organization, nodes, node_i, nodes_metadata,
                   collected, prev_collected, cycle, last_dump, call>>

\* saveMetadata: write the pickle; the pop also changes the records in memory
SaveMetadata ==
    /\ pc = "save"
    /\ pickle_file' = [exists |-> TRUE,
                        data |-> pickleDump(pickleData(nodes_metadata))]
    /\ last_dump' = [cycle |-> cycle, data |-> pickleData(nodes_metadata)]
    /\ nodes_metadata' = [i \in 1..Len(nodes_metadata) |->
                             Pop(nodes_metadata[i], CHEF_UNIQUE_ID)]
    /\ pc' = afterSave(use_cron)
    /\ exit_cause' = IF pc' = "exited" THEN "cron_done" ELSE exit_cause
    /\ UNCHANGED <<use_cron, config, organization, nodes, node_i, send_i,
                   requests, collected, prev_collected, cycle, call, steps, sent>>

\* main, lines 349-351: sleep, then the next m.run()
Sleep ==
    /\ pc = "sleep"
    /\ cycle < MaxCycles
    /\ pc' = "run"
    /\ UNCHANGED <<use_cron, config, organization, nodes, node_i, nodes_metadata,
                   send_i, pickle_file, exit_cause, requests, collected,
                   prev_collected, cycle, last_dump, call, steps, sent>>

Next ==
    \/ RunReadConfig
    \/ CollectListing
    \/ GetNodeInformation
    \/ SendMetadataToSignalfx
    \/ SaveMetadata
    \/ Sleep

Spec ==
    Init /\ [][Next]_vars

\* the interpreter keeps executing: every call returns and sleep() ends
SpecLive ==
    Spec /\ WF_vars(Next)

(***************************************************************************)
(* Direct calls of the methods that compute a result from their arguments  *)
(* alone, each on a freshly built Metadata object. A call records its      *)
(* arguments and its result in `call`.                                     *)
(***************************************************************************)
MaxLines == 3

\* what a line of the config file can be, without its newline
LINE_BODIES ==
    {<<>>, <<"#">>, <<"#", "a">>, <<"a">>, <<"a", ".", "b">>, <<"9">>,
     <<" ">>, <<".", "a">>}

\* f.readlines(): every line ends with a newline, but the last one may not
ConfigLines(n) ==
    {f \in [1..n -> {b \o <<"\n">> : b \in LINE_BODIES}
                     \cup (LINE_BODIES \ {<<>>})] :
        \A i \in 1..(n - 1) : f[i][Len(f[i])] = "\n"}

ReadableConfigFiles ==
    UNION {ConfigLines(n) : n \in 0..MaxLines}

main_vars ==
    <<pc, use_cron, config, organization, nodes, node_i, nodes_metadata, send_i,
      pickle_file, exit_cause, requests, collected, prev_collected, cycle,
      last_dump, steps, sent>>

\* m.readConfig() on a config file with the given lines
CallReadConfig ==
    /\ call.op = "none"
    /\ \E lines \in ReadableConfigFiles :
          call' = [NoCall EXCEPT !.op = "readConfig",
                                 !.lines = lines,
                                 !.res_seq = readConfigLines(lines),
                                 !.errors = readConfigErrors(lines)]
    /\ UNCHANGED main_vars

MaxStrLen == 2

NAME_CHARS ==
    {"a", "Z", "_", "-", "9", ".", "\n"}

\* the strings over NAME_CHARS of length n
RECURSIVE StringsOfLen(_)
StringsOfLen(n) ==
    IF n = 0 THEN {<<>>}
    ELSE {Append(s, c) : s \in StringsOfLen(n - 1), c \in NAME_CHARS}

\* short strings, alone and after a beginning that is or resembles 'chef_'
AttributeStrings ==
    {p \o s : p \in {<<>>, CHEF_PREFIX, <<"c","h","e","f",".">>, <<"c","h","e","f">>},
              s \in UNION {StringsOfLen(n) : n \in 0..MaxStrLen}}

\* m.checkPropertyNameSyntax(attribute)
CallCheckPropertyNameSyntax ==
    /\ call.op = "none"
    /\ \E attribute \in AttributeStrings :
          call' = [NoCall EXCEPT !.op = "checkPropertyNameSyntax",
                                 !.attribute = attribute,
                                 !.res_bool = checkPropertyNameSyntax(attribute)]
    /\ UNCHANGED main_vars

\* m.adjustAttributeName(attribute)
CallAdjustAttributeName ==
    /\ call.op = "none"
    /\ \E attribute \in AttributeStrings :
          call' = [NoCall EXCEPT !.op = "adjustAttributeName",
                                 !.attribute = attribute,
                                 !.res_str = adjustAttributeName(attribute)]
    /\ UNCHANGED main_vars

\* values an attribute of a node can have at the end of a path
LEAF_VALUES ==
    {VStr(<<"w">>), VStr(<<>>), VInt(1), VList(<<>>),
     VList(<<VStr(<<"w">>), VStr(<<"c">>)>>), VList(<<VInt(1)>>),
     VList(<<VDict(<<"b">> :> VStr(<<"1">>))>>),
     VList(<<VStr(<<"w">>), VDict(<<"b">> :> VStr(<<"1">>))>>)}

INNER_VALUES ==
    LEAF_VALUES \cup {VDict(<<>>)} \cup {VDict(<<"b">> :> v) : v \in LEAF_VALUES}

\* attribute trees with the top-level keys a and b
AttributeTrees ==
    {VDict(m) : m \in UNION {[keys -> INNER_VALUES] :
                                keys \in {{<<"a">>}, {<<"b">>}, {<<"a">>, <<"b">>}}}}

ATTRIBUTE_PATHS ==
    {<<"a">>, <<"b">>, <<"c">>, <<"a", ".", "b">>, <<"a", ".", "b", ".", "c">>,
     <<"a", ".">>, <<>>}

\* m.getAttributeValue(attribute, node_details)
CallGetAttributeValue ==
    /\ call.op = "none"
    /\ \E attribute \in ATTRIBUTE_PATHS, tree \in AttributeTrees :
          LET node_details == [chef_environment |-> <<"p">>, attributes |-> tree]
              attributeValue == getAttributeValue(attribute, node_details)
          IN  call' = [NoCall EXCEPT !.op = "getAttributeValue",
                                     !.attribute = attribute,
                                     !.node_details = node_details,
                                     !.res_kind = attributeValue.kind,
                                     !.res_str = attributeValue.s]
    /\ UNCHANGED main_vars

MaxConfig == 2

ENVIRONMENT ==
    <<"e","n","v","i","r","o","n","m","e","n","t">>

\* a list that holds a mapping
TREE_5 ==
    VDict((<<"r">> :> VList(<<VDict(<<"b">> :> VStr(<<"1">>))>>))
          @@ (<<"a">> :> VStr(<<"x">>)))

\* an attribute named like the node's environment field
TREE_6 ==
    VDict((ENVIRONMENT :> VStr(<<"x">>)) @@ (<<"r">> :> VStr(<<"w">>)))

CollectedTrees ==
    {TREE_1, TREE_2, TREE_3, TREE_4, TREE_5, TREE_6}

CONFIGURED_PATHS ==
    {<<"r">>, <<"a">>, <<"a", ".", "b">>, ENVIRONMENT}

\* self.config: up to MaxConfig attributes that readConfig keeps
Configs ==
    UNION {[1..n -> CONFIGURED_PATHS] : n \in 0..MaxConfig}

\* m.getNodeInformation(node_name) with self.config and self.organization set
CallGetNodeInformation ==
    /\ call.op = "none"
    /\ \E cfg \in Configs, tree \in CollectedTrees, env \in {<<"p">>, <<"d">>} :
          LET node_details == [chef_environment |-> env, attributes |-> tree]
              info == getNodeInformation(<<"o">>, <<"n", "1">>, node_details, cfg)
          IN  call' = [NoCall EXCEPT !.op = "getNodeInformation",
                                     !.config = cfg,
                                     !.node_details = node_details,
                                     !.res_kind = info.kind,
                                     !.res_rec = info.rec]
    /\ UNCHANGED main_vars

NextFn ==
    \/ CallReadConfig
    \/ CallGetNodeInformation
    \/ CallCheckPropertyNameSyntax
    \/ CallAdjustAttributeName
    \/ CallGetAttributeValue

SpecFn ==
    Init /\ [][NextFn]_vars

(***************************************************************************)
(* Vocabulary of the properties.                                           *)
(***************************************************************************)
\* the MetadataRecord of a collected nodeInformation: all but the identity key
MetadataRecord(nodeInformation) ==
    [k \in (DOMAIN nodeInformation) \ {CHEF_UNIQUE_ID} |-> nodeInformation[k]]

CollectedIds ==
    {collected[i][CHEF_UNIQUE_ID] : i \in 1..Len(collected)}

\* position in this cycle's records of the node with this identity
IndexOf(id) ==
    CHOOSE i \in 1..Len(collected) : collected[i][CHEF_UNIQUE_ID] = id

\* the Delta of section 3: entries that are new or differ from the stored ones
SpecDelta(record, previous) ==
    [k \in {x \in DOMAIN record : x \notin DOMAIN previous \/ record[x] # previous[x]}
        |-> record[k]]

\* the cycle has run to the end of saveMetadata
CycleCompleted ==
    pc \in {"sleep", "exited"}

\* the pickle file is still the one this cycle's diffs loaded
SnapshotAsLoaded ==
    pc \in {"send", "save", "aborted"}

IsPatch(r) ==
    r.op = "PATCH"

IsFound(r) ==
    r.op = "GET" /\ r.status = 200 /\ r.rs # <<>>

IsNotFound(r) ==
    r.op = "GET" /\ r.status = 200 /\ r.rs = <<>>

IsFailedLookup(r) ==
    r.op = "GET" /\ r.status # 200

LookedUpIds ==
    {requests[j].id : j \in {x \in 1..Len(requests) : requests[x].op = "GET"}}

(***************************************************************************)
(* C1: when a cycle completes, the pickle file holds exactly one entry per *)
(* identity collected in the cycle, and the entry is that node's freshly   *)
(* collected record (without the identity key), whatever the sync did.     *)
(***************************************************************************)
C1_SnapshotIsCollected ==
    CycleCompleted =>
        /\ pickle_file.exists
        /\ DOMAIN LoadedMetadata = CollectedIds
        /\ \A i \in 1..Len(collected) :
              LoadedMetadata[collected[i][CHEF_UNIQUE_ID]]
                  = MetadataRecord(collected[i])

\* a completed cycle with an unchanged node and a node whose patch got a 400
C1_Witness ==
    /\ CycleCompleted
    /\ \E j \in 1..Len(requests) : requests[j].op = "NO_NEW"
    /\ \E j \in 1..Len(requests) : IsPatch(requests[j]) /\ requests[j].status = 400

(***************************************************************************)
(* C2: for an identity present in the loaded snapshot, the diff is exactly *)
(* the entries of the current record that are absent from the stored       *)
(* record or differ from it; the identity key is not in it.                *)
(***************************************************************************)
C2_DeltaOfKnownNode ==
    SnapshotAsLoaded =>
        /\ \A i \in 1..Len(nodes_metadata) :
              LET id == nodes_metadata[i][CHEF_UNIQUE_ID]
              IN  (pickle_file.exists /\ id \in DOMAIN LoadedMetadata) =>
                     checkForUpdatesInMetadata(nodes_metadata[i], LoadedMetadata)
                        = SpecDelta(MetadataRecord(nodes_metadata[i]),
                                    LoadedMetadata[id])
        /\ \A j \in 1..Len(requests) :
              LET r == requests[j]
              IN  (r.op \in {"PATCH", "NO_NEW"} /\ r.id \in DOMAIN LoadedMetadata) =>
                     r.params = SpecDelta(MetadataRecord(collected[IndexOf(r.id)]),
                                          LoadedMetadata[r.id])

\* a known node was patched with a delta that drops one entry and keeps another
C2_Witness ==
    /\ SnapshotAsLoaded
    /\ \E j \in 1..Len(requests) :
          LET r == requests[j]
          IN  /\ IsPatch(r)
              /\ r.id \in DOMAIN LoadedMetadata
              /\ DOMAIN r.params # {}
              /\ DOMAIN r.params # DOMAIN MetadataRecord(collected[IndexOf(r.id)])
              /\ \E k \in DOMAIN r.params : k \in DOMAIN LoadedMetadata[r.id]
              /\ \E k \in DOMAIN r.params : k \notin DOMAIN LoadedMetadata[r.id]

(***************************************************************************)
(* C3: for an identity absent from the loaded snapshot, the patch payload  *)
(* is exactly the node's MetadataRecord: every dimension key of the record *)
(* and no other key.                                                       *)
(***************************************************************************)
C3_DeltaOfNewNodeIsRecord ==
    SnapshotAsLoaded =>
        \A j \in 1..Len(requests) :
            LET r == requests[j]
            IN  (IsPatch(r) /\ r.id \notin DOMAIN LoadedMetadata) =>
                   r.params = MetadataRecord(collected[IndexOf(r.id)])

(***************************************************************************)
(* C4: while no snapshot has been persisted, the missing file is no error: *)
(* every node whose object is found is patched with its whole record and   *)
(* the process does not end because of the missing file.                   *)
(***************************************************************************)
C4_FirstRunIsNotAnError ==
    ~pickle_file.exists =>
        /\ exit_cause # "pickle_open_raises"
        /\ \A j \in 1..Len(requests) :
              IsFound(requests[j]) =>
                 \E k \in 1..Len(requests) :
                    /\ IsPatch(requests[k])
                    /\ requests[k].id = requests[j].id
                    /\ \A key \in DOMAIN MetadataRecord(collected[IndexOf(requests[j].id)]) :
                          key \in DOMAIN requests[k].params

(***************************************************************************)
(* C5: when the previous cycle completed and this cycle collected the same *)
(* records, every diff of this cycle is empty and no patch is requested.   *)
(***************************************************************************)
SameAsPreviousCycle ==
    /\ prev_collected.done
    /\ prev_collected.records = {collected[i] : i \in 1..Len(collected)}

C5_SecondCycleSendsNothing ==
    (pc \in {"save", "sleep", "exited"} /\ SameAsPreviousCycle) =>
        /\ \A j \in 1..Len(requests) : ~IsPatch(requests[j])
        /\ \A j \in 1..Len(requests) :
              IsFound(requests[j]) =>
                 /\ j < Len(requests)
                 /\ requests[j + 1] = NoNewMetadata(requests[j].id)
        /\ pc = "save" =>
              \A i \in 1..Len(nodes_metadata) :
                  checkForUpdatesInMetadata(nodes_metadata[i], LoadedMetadata) = <<>>

\* a second cycle with the same two records, one of them looked up and found
C5_Witness ==
    /\ CycleCompleted
    /\ SameAsPreviousCycle
    /\ Len(collected) = 2
    /\ \E j \in 1..Len(requests) : IsFound(requests[j])

C7_NotFoundSkipsNode ==
    \A j \in 1..Len(requests) :
        IsNotFound(requests[j]) =>
           LET id == requests[j].id
               i == IndexOf(id)
           IN  /\ \A k \in 1..Len(requests) :
                     requests[k].id = id => requests[k].op = "GET"
               /\ j = Len(requests) =>
                     /\ pc # "aborted"
                     /\ pc = "send" => send_i = i + 1
               /\ j < Len(requests) =>
                     /\ i < Len(collected)
                     /\ requests[j + 1].op = "GET"
                     /\ requests[j + 1].id = collected[i + 1][CHEF_UNIQUE_ID]
               /\ CycleCompleted =>
                     /\ LookedUpIds = CollectedIds
                     /\ pickle_file.exists
                     /\ id \in DOMAIN LoadedMetadata
                     /\ LoadedMetadata[id] = MetadataRecord(collected[i])

\* a completed cycle whose first node was not found and whose second was patched
C7_Witness ==
    /\ CycleCompleted
    /\ Len(requests) = 3
    /\ IsNotFound(requests[1])
    /\ IsPatch(requests[3])

(***************************************************************************)
(* C8: a lookup answered with a status other than 200 ends the process:    *)
(* it is the last request, the process is in its abort state, the step     *)
(* does not touch the pickle file, and no step follows the abort state (no *)
(* later lookup or patch, no snapshot write, no further cycle).            *)
(***************************************************************************)
C8_LookupFailureAborts ==
    /\ [](\A j \in 1..Len(requests) :
             IsFailedLookup(requests[j]) => (j = Len(requests) /\ pc = "aborted"))
    /\ [][pc # "aborted"]_vars
    /\ [][(requests' # requests /\ requests' # <<>>
             /\ IsFailedLookup(requests'[Len(requests')]))
          => pickle_file' = pickle_file]_vars

\* the lookup of the first of two nodes failed while a snapshot existed
C8_Witness ==
    /\ pc = "aborted"
    /\ Len(collected) = 2
    /\ Len(requests) = 1
    /\ IsFailedLookup(requests[1])
    /\ requests[1].status = 404
    /\ pickle_file.exists

C10_NodeFailureDoesNotAbort ==
    ~(pc = "aborted" /\ exit_cause \in {"node_fetch", "join_type_error"})

C16_CronOnceElseRepeat ==
    /\ [](use_cron => cycle <= 1)
    /\ [](pc = "exited" => use_cron /\ cycle = 1 /\ last_dump.cycle = 1)
    /\ [][pc # "exited"]_vars
    /\ [](pc = "sleep" => ~use_cron /\ last_dump.cycle = cycle)
    /\ <>(\/ pc \in {"exited", "aborted"}
          \/ pc = "sleep" /\ cycle = MaxCycles)
    /\ [][(cycle' # cycle /\ cycle > 0)
            => (~use_cron /\ last_dump.cycle = cycle /\ cycle' = cycle + 1)]_vars

\* the loop is in its second cycle, after the first one wrote the snapshot
C16_Witness ==
    /\ ~use_cron
    /\ cycle = 2
    /\ pc = "send"
    /\ last_dump.cycle = 1

(***************************************************************************)
(* C17: the order of a cycle.                                              *)
(***************************************************************************)
InCycle ==
    pc \in {"collect", "send", "save", "aborted"}

\* the config is reloaded and the record list reset when the cycle starts
CycleStartsFresh ==
    pc = "collect" =>
        /\ nodes_metadata = <<>>
        /\ requests = <<>>
        /\ \E lines \in ConfigFiles : config = readConfigLines(lines)

\* every node is collected before any remote request is made
CollectedBeforeRequests ==
    (InCycle /\ requests # <<>>) =>
        /\ Len(collected) = Len(nodes)
        /\ Len(nodes_metadata) = Len(nodes)

\* the snapshot is written once in a cycle, after the last node was handled
PersistedOnceAtEnd ==
    /\ InCycle => last_dump.cycle < cycle
    /\ CycleCompleted =>
          /\ last_dump.cycle = cycle
          /\ send_i = Len(nodes_metadata) + 1
          /\ LookedUpIds = CollectedIds

\* C17 as stated: LOAD_CONFIG, COLLECT, per node DIFF then SYNC (the lookup
\* and the patch), PERSIST once after the last node
C17_DiffThenSync ==
    /\ CycleStartsFresh
    /\ CollectedBeforeRequests
    /\ steps # <<>> => Head(steps) = "DIFF"
    /\ PersistedOnceAtEnd

\* C17 amended: as stated, except that for each node the lookup comes
\* first, the diff is computed only for a node whose lookup found an object,
\* and the patch comes after the diff
C17_LookupThenDiffThenPatch ==
    /\ [](CycleStartsFresh /\ CollectedBeforeRequests /\ PersistedOnceAtEnd)
    /\ [](steps \in {<<>>, <<"LOOKUP">>, <<"LOOKUP", "DIFF">>,
                     <<"LOOKUP", "DIFF", "PATCH">>})
    /\ []((InCycle /\ Len(steps) >= 2) =>
            /\ requests # <<>>
            /\ \E j \in 1..Len(requests) :
                  /\ IsFound(requests[j])
                  /\ \A k \in (j + 1)..Len(requests) : requests[k].id = requests[j].id)
    /\ [](\A i \in 1..Len(requests) :
            requests[i].op \in {"PATCH", "NO_NEW"} =>
                /\ i > 1
                /\ IsFound(requests[i - 1])
                /\ requests[i - 1].id = requests[i].id)
    /\ [](exit_cause = "pickle_open_raises" =>
            /\ requests # <<>>
            /\ IsFound(requests[Len(requests)]))
    /\ [][last_dump' # last_dump
            => (pc = "save" /\ pc' \in {"sleep", "exited"}
                /\ send_i = Len(nodes_metadata) + 1)]_vars

\* the second cycle completed and its last node went through lookup, diff
\* and patch
C17_Witness ==
    /\ CycleCompleted
    /\ cycle = 2
    /\ Len(nodes) = 2
    /\ steps = <<"LOOKUP", "DIFF", "PATCH">>

(***************************************************************************)
(* C18: collection, lookup, diff and patch leave the pickle file as it is: *)
(* during a cycle the file is the one the cycle started with, every diff   *)
(* of the cycle is computed against it, and the file changes only in the   *)
(* one write of saveMetadata that ends the cycle and stores every          *)
(* collected node.                                                         *)
(***************************************************************************)
\* the file as the previous cycles left it
SnapshotAtCycleStart ==
    IF last_dump.cycle = 0 THEN NoFile
    ELSE [exists |-> TRUE, data |-> pickleDump(last_dump.data)]

C18_SnapshotFrame ==
    /\ [](InCycle => (last_dump.cycle < cycle /\ pickle_file = SnapshotAtCycleStart))
    /\ [](InCycle =>
            \A j \in 1..Len(requests) :
                LET r == requests[j]
                IN  r.op \in {"PATCH", "NO_NEW"} =>
                        r.params = checkForUpdatesInMetadata(collected[IndexOf(r.id)],
                                                             last_dump.data))
    /\ [][pickle_file' # pickle_file
            => (/\ pc = "save"
                /\ pc' \in {"sleep", "exited"}
                /\ last_dump'.cycle = cycle
                /\ DOMAIN pickleLoad(pickle_file'.data) = CollectedIds)]_vars

\* the second cycle has handled two nodes, one of them with a patch, and
\* the file is still the one of the first cycle
C18_Witness ==
    /\ pc = "save"
    /\ cycle = 2
    /\ pickle_file.exists
    /\ Len(requests) >= 4
    /\ \E j \in 1..Len(requests) : IsPatch(requests[j])
    /\ \E i \in 1..Len(collected) :
          /\ collected[i][CHEF_UNIQUE_ID] \in DOMAIN LoadedMetadata
          /\ LoadedMetadata[collected[i][CHEF_UNIQUE_ID]] # MetadataRecord(collected[i])

(***************************************************************************)
(* C11: for every readable config file readConfig sets the attribute list  *)
(* to exactly the lines, in file order and without their newline, that are *)
(* not blank, do not begin with '#' and match the name pattern once '.' is *)
(* replaced by '_'; every other non-blank, non-comment line is left out    *)
(* and gives exactly one error log entry.                                  *)
(***************************************************************************)
IsCandidateLine(line) ==
    line # <<"\n">> /\ ~StartsWith(line, <<"#">>)

HasValidName(line) ==
    NameCore(Replace(RStrip(line, "\n"), ".", "_"))

KeptLines(lines) ==
    LET keep(line) == IsCandidateLine(line) /\ HasValidName(line)
        kept == SelectSeq(lines, keep)
    IN  [i \in 1..Len(kept) |-> RStrip(kept[i], "\n")]

RejectedLines(lines) ==
    LET bad(line) == IsCandidateLine(line) /\ ~HasValidName(line)
    IN  SelectSeq(lines, bad)

C11_ReadConfigKeepsValidLines ==
    call.op = "readConfig" =>
        /\ call.res_seq = KeptLines(call.lines)
        /\ Len(call.errors) = Len(RejectedLines(call.lines))
        /\ \A i \in 1..Len(call.errors) :
              call.errors[i] = Replace(RStrip(RejectedLines(call.lines)[i], "\n"),
                                       ".", "_")

\* one invalid line among valid ones, a comment and a blank line
C11_Witness ==
    /\ call.op = "readConfig"
    /\ Len(call.lines) = 3
    /\ Len(call.res_seq) = 1
    /\ Len(call.errors) = 1
    /\ \E i \in 1..3 : call.lines[i] = <<"a", ".", "b", "\n">>

(***************************************************************************)
(* C12: for every dotted path and attribute tree getAttributeValue returns *)
(* None when a token is absent or indexes a value that cannot be indexed,  *)
(* None when the path ends at a mapping, the elements joined with '$' when *)
(* it ends at a list without a mapping, otherwise str() of the value; and  *)
(* it never raises.                                                        *)
(***************************************************************************)
ResolvedValue ==
    WalkTokens(Split(call.attribute, "."), call.node_details.attributes)

IsFlatList(v) ==
    v.t = "list" /\ \A i \in 1..Len(v.xs) : v.xs[i].t # "dict"

C12_GetAttributeValueTotal ==
    call.op = "getAttributeValue" =>
        /\ call.res_kind # "raise"
        /\ ~ResolvedValue.ok => call.res_kind = "none"
        /\ ResolvedValue.ok =>
              LET v == ResolvedValue.v
              IN  CASE v.t = "dict" -> call.res_kind = "none"
                    [] IsFlatList(v) ->
                          /\ call.res_kind = "str"
                          /\ call.res_str =
                                JoinStrs(<<"$">>, [i \in 1..Len(v.xs) |-> PyStr(v.xs[i])])
                    [] OTHER ->
                          /\ call.res_kind = "str"
                          /\ call.res_str = PyStr(v)

(***************************************************************************)
(* C13: adjustAttributeName returns the string with each '.' replaced by   *)
(* '_', with 'chef_' put in front unless the replaced string already       *)
(* starts with 'chef_'; the result starts with 'chef_' and has no '.', and *)
(* a string that starts with 'chef_' and has no '.' comes back unchanged.  *)
(***************************************************************************)
HasDot(s) ==
    \E i \in 1..Len(s) : s[i] = "."

C13_AdjustAttributeName ==
    call.op = "adjustAttributeName" =>
        LET replaced == [i \in 1..Len(call.attribute) |->
                            IF call.attribute[i] = "." THEN "_" ELSE call.attribute[i]]
            prefixed == Len(replaced) >= 5 /\ SubSeq(replaced, 1, 5) = CHEF_PREFIX
        IN  /\ call.res_str = IF prefixed THEN replaced ELSE CHEF_PREFIX \o replaced
            /\ SubSeq(call.res_str, 1, 5) = CHEF_PREFIX
            /\ ~HasDot(call.res_str)
            /\ (StartsWith(call.attribute, CHEF_PREFIX) /\ ~HasDot(call.attribute))
                  => call.res_str = call.attribute

\* 'chef.x' becomes 'chef_x' without a second prefix
C13_Witness ==
    /\ call.op = "adjustAttributeName"
    /\ call.attribute = <<"c", "h", "e", "f", ".", "a">>
    /\ call.res_str = <<"c", "h", "e", "f", "_", "a">>

(***************************************************************************)
(* C14: checkPropertyNameSyntax returns True for exactly the strings made  *)
(* of a first character in [a-zA-Z_] followed by characters in             *)
(* [a-zA-Z0-9_-], and False for every other string.                        *)
(***************************************************************************)
C14_SyntaxCheckIsThePattern ==
    call.op = "checkPropertyNameSyntax" =>
        (call.res_bool <=>
            /\ Len(call.attribute) >= 1
            /\ call.attribute[1] \in Letters \cup {"_"}
            /\ \A i \in 2..Len(call.attribute) :
                  call.attribute[i] \in Letters \cup Digits \cup {"_", "-"})

(***************************************************************************)
(* C19: a configured path that resolves to a list holding a mapping.       *)
(***************************************************************************)
HoldsMapping(v) ==
    v.t = "list" /\ \E i \in 1..Len(v.xs) : v.xs[i].t = "dict"

\* what the i-th configured attribute of the getNodeInformation call resolves to
ResolvedAt(i) ==
    WalkTokens(Split(call.config[i], "."), call.node_details.attributes)

C20_EnvironmentIsTheNodes ==
    (call.op = "getNodeInformation" /\ call.res_kind = "ok") =>
        /\ CHEF_ENVIRONMENT \in DOMAIN call.res_rec
        /\ call.res_rec[CHEF_ENVIRONMENT] = call.node_details.chef_environment

(***************************************************************************)
(* C21: no update is lost: if from some cycle on a node's collected record *)
(* stays the same, every lookup finds its object and every patch succeeds, *)
(* then eventually every key/value of the record has been taken by         *)
(* SignalFx in a patch for that node, even when an earlier cycle did not   *)
(* find the node or had a failed patch.                                    *)
(* The last cycle that the model runs stands for that cycle and all the    *)
(* ones after it: its snapshot holds the record it collected, so later     *)
(* cycles with the same record and the same answers repeat its outcome.    *)
(***************************************************************************)
NodeIdentities ==
    {NodeIdentity(o, n) : o \in ORGANIZATIONS, n \in NODE_NAMES}

\* the loop has completed its last cycle, in which the node was collected,
\* its object was found and no patch for it failed
Settled(id) ==
    /\ pc = "sleep"
    /\ cycle = MaxCycles
    /\ id \in CollectedIds
    /\ \E j \in 1..Len(requests) : requests[j].id = id /\ IsFound(requests[j])
    /\ \A j \in 1..Len(requests) :
          (requests[j].id = id /\ IsPatch(requests[j])) => requests[j].status = 200

\* every entry of the node's record has been taken by SignalFx
AllSent(id) ==
    /\ id \in CollectedIds
    /\ \A k \in DOMAIN MetadataRecord(collected[IndexOf(id)]) :
          <<id, k, collected[IndexOf(id)][k]>> \in sent

====
